---- MODULE Spec2Model ----
(***************************************************************************)
(* Model of the hex crate: the Point algebra of hex/src/point.rs and the   *)
(* Map container of hex/src/map.rs.  Every operation of the library is a   *)
(* pure function; it is written here as an operator that computes what the *)
(* Rust code computes, and applied by one action that records the call and *)
(* its result.                                                             *)
(***************************************************************************)
EXTENDS Integers, Sequences, FiniteSets, TLC

\* ------------------------------------------------------------------ bounds
\* Largest absolute value of a coordinate of an input point.
MaxCoord == 2
\* Largest absolute value of an integer argument (direction, hextant, axis,
\* radius, dist, index).
MaxK == 7

\* ------------------------------------------------------------ the state
VARIABLES
    a,          \* self, the receiver of the call
    b,          \* other, the second point argument (Map::new: size)
    k,          \* the integer argument
    op,         \* the operation that ran last
    status,     \* "ok": the call returned, "panic": the call aborted
    out_pt,     \* a returned Point
    out_int,    \* a returned i32
    out_seq,    \* a returned Vec<Point>
    maps        \* the Map built by Map::new, if any (zero or one element)

vars == <<a, b, k, op, status, out_pt, out_int, out_seq, maps>>

\* ------------------------------------------------------- Point, constants
Pt(x, y) == [hx |-> x, hy |-> y]

Coords == (0 - MaxCoord)..MaxCoord
Points == [hx : Coords, hy : Coords]
Ks == (0 - MaxK)..MaxK

ORIGIN == Pt(0, 0)

\* The array is indexed from 0, as in the source.
UNIT == [i \in 0..5 |->
           CASE i = 0 -> Pt(0, -1)
             [] i = 1 -> Pt(1, -1)
             [] i = 2 -> Pt(1, 0)
             [] i = 3 -> Pt(0, 1)
             [] i = 4 -> Pt(-1, 1)
             [] i = 5 -> Pt(-1, 0)]

\* ----------------------------------------------------- integer primitives
\* i32::abs
abs(x) == IF x < 0 THEN 0 - x ELSE x

\* The % of Rust: the remainder of the division that truncates towards
\* zero, with the sign of the dividend.
rem(x, n) == IF x >= 0 THEN x % abs(n) ELSE 0 - ((0 - x) % abs(n))

\* i32::rem_euclid: r = self % rhs; if r < 0 { r + |rhs| } else { r }
rem_euclid(x, n) == LET r == rem(x, n) IN IF r < 0 THEN r + abs(n) ELSE r

\* Ord::max, Ord::min
max(x, y) == IF y >= x THEN y ELSE x
min(x, y) == IF y < x THEN y ELSE x

\* --------------------------------------------------------- Point algebra
add(p, q) == Pt(p.hx + q.hx, p.hy + q.hy)
sub(p, q) == Pt(p.hx - q.hx, p.hy - q.hy)
mul(p, n) == Pt(p.hx * n, p.hy * n)

hz(p) == p.hy - p.hx

neighbor_abs(p, direction) == add(p, UNIT[abs(direction) % 6])
neighbor(p, direction) == add(p, UNIT[rem_euclid(direction, 6)])

invert(p) == Pt(p.hx * (-1), p.hy * (-1))

reflect(p, axis) ==
    CASE rem_euclid(axis, 3) = 0 -> Pt(p.hx, hz(p))
      [] rem_euclid(axis, 3) = 1 -> Pt(hz(p), p.hy)
      [] rem_euclid(axis, 3) = 2 -> Pt(p.hy, p.hx)
      [] OTHER -> ORIGIN

rotate_swapped(p, hextant) ==
    LET rot == rem_euclid(hextant, 3)
        inv == IF rem_euclid(hextant, 2) = 0 THEN 1 ELSE -1
        ring5 == [i \in 0..4 |->
                   CASE i = 0 -> p.hx [] i = 1 -> p.hy [] i = 2 -> hz(p)
                     [] i = 3 -> p.hy [] i = 4 -> p.hx]
    IN Pt(ring5[rot] * inv, ring5[rot + 1] * inv)
rotate(p, hextant) ==
    LET rot == rem_euclid(hextant, 3)
        inv == IF rem_euclid(hextant, 2) = 0 THEN 1 ELSE -1
        ring5 == [i \in 0..4 |->
                   CASE i = 0 -> p.hx [] i = 1 -> p.hy [] i = 2 -> hz(p)
                     [] i = 3 -> p.hx [] i = 4 -> p.hy]
    IN Pt(ring5[rot] * inv, ring5[rot + 1] * inv)

distance(p, other) ==
    LET diff == sub(p, other)
    IN (abs(diff.hx) + abs(diff.hx + diff.hy) + abs(diff.hy)) \div 2

\* ------------------------------------------------------- f32 arithmetic
\* An f32 is NaN, an infinity, or the finite value  (-1)^neg * m / 2^e  with
\* a significand m of at most 24 bits.  Every operation below returns the
\* correctly rounded result (round to nearest, ties to even), as IEEE 754
\* arithmetic does.  Exponent range is not modelled: the magnitudes the
\* library reaches with coordinates inside the i32-safe range of the model
\* are far from overflow and underflow.
F32Nan == [kind |-> "nan", neg |-> FALSE, m |-> 0, e |-> 0]
F32Inf(n) == [kind |-> "inf", neg |-> n, m |-> 0, e |-> 0]
F32Fin(n, mm, ee) == [kind |-> "fin", neg |-> n, m |-> mm, e |-> ee]

\* Number of low bits to drop so that mm fits in 24 bits.
RECURSIVE DropBits(_, _)
DropBits(mm, s) == IF mm \div (2 ^ s) < 2 ^ 24 THEN s ELSE DropBits(mm, s + 1)

\* Round the exact value mm / 2^ee to 24 significant bits, ties to even.
Round24(n, mm, ee) ==
    LET s == DropBits(mm, 0)
        q == mm \div (2 ^ s)
        r == mm % (2 ^ s)
        up == s > 0 /\ (2 * r > 2 ^ s \/ (2 * r = 2 ^ s /\ q % 2 = 1))
    IN F32Fin(n, IF up THEN q + 1 ELSE q, ee - s)

\* i32 as f32: exact up to 2^24, rounded above.  The inputs of the model
\* are small, so every cast of a coordinate is exact here.
as_f32(x) == Round24(x < 0, abs(x), 0)

\* Number of bits to shift the dividend left so that the quotient has 24
\* significant bits.
RECURSIVE QuotBits(_, _, _)
QuotBits(mx, my, s) ==
    IF mx * (2 ^ s) >= (2 ^ 23) * my THEN s ELSE QuotBits(mx, my, s + 1)

\* f32 / f32
f32_div(x, y) ==
    CASE x.kind = "nan" \/ y.kind = "nan" -> F32Nan
      [] x.kind = "inf" /\ y.kind = "inf" -> F32Nan
      [] x.kind = "inf" -> F32Inf(x.neg # y.neg)
      [] y.kind = "inf" -> F32Fin(x.neg # y.neg, 0, 0)
      [] y.m = 0 /\ x.m = 0 -> F32Nan
      [] y.m = 0 -> F32Inf(x.neg # y.neg)
      [] x.m = 0 -> F32Fin(x.neg # y.neg, 0, 0)
      [] OTHER ->
           LET s == QuotBits(x.m, y.m, 0)
               n == x.m * (2 ^ s)
               q == n \div y.m
               r == n % y.m
               up == 2 * r > y.m \/ (2 * r = y.m /\ q % 2 = 1)
           IN Round24(x.neg # y.neg, IF up THEN q + 1 ELSE q, s + x.e - y.e)

\* f32 * f32
f32_mul(x, y) ==
    CASE x.kind = "nan" \/ y.kind = "nan" -> F32Nan
      [] x.kind = "inf" /\ y.kind = "fin" /\ y.m = 0 -> F32Nan
      [] y.kind = "inf" /\ x.kind = "fin" /\ x.m = 0 -> F32Nan
      [] x.kind = "inf" \/ y.kind = "inf" -> F32Inf(x.neg # y.neg)
      [] OTHER -> Round24(x.neg # y.neg, x.m * y.m, x.e + y.e)

\* f32::round: to the nearest integer, ties away from zero
f32_round(x) ==
    IF x.kind # "fin" \/ x.e <= 0 THEN x
    ELSE F32Fin(x.neg, (x.m + 2 ^ (x.e - 1)) \div (2 ^ x.e), 0)

\* f32 + f32
f32_add(x, y) ==
    CASE x.kind = "nan" \/ y.kind = "nan" -> F32Nan
      [] x.kind = "inf" /\ y.kind = "inf" ->
           IF x.neg = y.neg THEN x ELSE F32Nan
      [] x.kind = "inf" -> x
      [] y.kind = "inf" -> y
      [] OTHER ->
           LET ee == max(x.e, y.e)
               vx == (IF x.neg THEN -1 ELSE 1) * x.m * (2 ^ (ee - x.e))
               vy == (IF y.neg THEN -1 ELSE 1) * y.m * (2 ^ (ee - y.e))
               v == vx + vy
           IN Round24(IF v = 0 THEN x.neg /\ y.neg ELSE v < 0, abs(v), ee)

\* f32 as i32: NaN becomes 0, the fraction is dropped (towards zero).  The
\* cast saturates at the ends of i32, which no value of the model reaches.
as_i32(x) ==
    CASE x.kind = "nan" -> 0
      [] x.kind = "inf" -> IF x.neg THEN -2147483647 - 1 ELSE 2147483647
      [] OTHER ->
           LET mag == IF x.e >= 0 THEN x.m \div (2 ^ x.e)
                      ELSE x.m * (2 ^ (0 - x.e))
           IN IF x.neg THEN 0 - mag ELSE mag

\* ------------------------------------------------------------------ line
\* Coord<f32>: the delta of one step of the line
slope(p, other) ==
    LET length == as_f32(distance(p, other))
        diff == sub(other, p)
    IN [x |-> f32_div(as_f32(diff.hx), length),
        y |-> f32_div(as_f32(diff.hy), length)]

interpolate_sum_rounded(p, other, step) ==
    LET sl == slope(p, other)
    IN Pt(as_i32(f32_round(f32_add(as_f32(p.hx), f32_mul(as_f32(step), sl.x)))),
          as_i32(f32_round(f32_add(as_f32(p.hy), f32_mul(as_f32(step), sl.y)))))
interpolate(p, other, step) ==
    LET sl == slope(p, other)
    IN Pt(as_i32(f32_add(as_f32(p.hx), f32_round(f32_mul(as_f32(step), sl.x)))),
          as_i32(f32_add(as_f32(p.hy), f32_round(f32_mul(as_f32(step), sl.y)))))

\* (0..n).map(|i| self.interpolate(&other, i)).collect(): element i of the
\* Vec, counted from 0, is element i + 1 of the sequence.
line_short(p, other) ==
    [n \in 1..distance(p, other) |-> interpolate(p, other, n - 1)]
line(p, other) ==
    [n \in 1..(distance(p, other) + 1) |-> interpolate(p, other, n - 1)]

\* ---------------------------------------------------------------- region
\* for hy in hy..hi { range.push(*self + Point { hx, hy }) }: the points
\* this loop pushes, in the order it pushes them.
RECURSIVE region_hy(_, _, _, _)
region_hy(p, hx, hy, hi) ==
    IF hy >= hi THEN <<>>
    ELSE <<add(p, Pt(hx, hy))>> \o region_hy(p, hx, hy + 1, hi)

\* for hx in hx..dist+1 { for hy in max(-dist, -hx-dist)..min(dist, -hx+dist)+1 }
RECURSIVE region_hx(_, _, _)
region_hx(p, dist, hx) ==
    IF hx >= dist + 1 THEN <<>>
    ELSE region_hy(p, hx, max(0 - dist, 0 - hx - dist),
                   min(dist, 0 - hx + dist) + 1)
         \o region_hx(p, dist, hx + 1)

RECURSIVE region_square(_, _, _)
region_square(p, dist, hx) ==
    IF hx >= dist + 1 THEN <<>>
    ELSE region_hy(p, hx, 0 - dist, dist + 1) \o region_square(p, dist, hx + 1)

region_unclamped(p, dist) == region_square(p, dist, 0 - dist)
region(p, dist) == region_hx(p, dist, 0 - dist)

\* ------------------------------------------------------------------ ring
\* for _step in step..radius { ring.push(next); next = next.neighbor(hextant) }
\* ring_step is what the loop pushes, ring_next the value it leaves in next.
RECURSIVE ring_step(_, _, _, _)
ring_step(hextant, step, radius, next) ==
    IF step >= radius THEN <<>>
    ELSE <<next>> \o ring_step(hextant, step + 1, radius, neighbor(next, hextant))

RECURSIVE ring_next(_, _, _, _)
ring_next(hextant, step, radius, next) ==
    IF step >= radius THEN next
    ELSE ring_next(hextant, step + 1, radius, neighbor(next, hextant))

\* for hextant in hextant..6 { ... }
RECURSIVE ring_hextant(_, _, _)
ring_hextant(hextant, radius, next) ==
    IF hextant >= 6 THEN <<>>
    ELSE ring_step(hextant, 0, radius, next)
         \o ring_hextant(hextant + 1, radius, ring_next(hextant, 0, radius, next))

ring_closed(p, radius) ==
    IF radius = 0 THEN <<p>>
    ELSE ring_hextant(0, radius + 1, mul(UNIT[4], abs(radius)))
ring(p, radius) ==
    IF radius = 0 THEN <<p>>
    ELSE ring_hextant(0, radius, mul(UNIT[4], abs(radius)))

\* ---------------------------------------------------------------- spiral
\* point.rs has no spiral; tests/point_test.rs calls it.  It is modelled
\* from its description: the rings of radius 0, 1, ..., radius, one after
\* the other.
RECURSIVE spiral_from(_, _, _, _)
spiral_from(p, r, radius, acc) ==
    IF r > radius THEN acc ELSE spiral_from(p, r + 1, radius, acc \o ring(p, r))

spiral(p, radius) == spiral_from(p, 0, radius, <<>>)

\* ------------------------------------------------------------- Hex, Map
Shapes == {"Rectangle", "Hexagon", "MegaHex"}
Orientations == {"Horizontal", "Vertical"}

Hex_new(location) == [location |-> location]

Row_new == [row |-> <<>>]
Row_push(r, h) == [row |-> Append(r.row, h)]

\* for j in j..size.hy { rows[i].push(Hex::new(Point { i + origin.hx, j + origin.hy })) }
\* rows[i] of the source is rows[i + 1] here: a Vec counts from 0.
RECURSIVE Map_new_j(_, _, _, _, _)
Map_new_j(i, j, size, origin, rows) ==
    IF j >= size.hy THEN rows
    ELSE Map_new_j(i, j + 1, size, origin,
                   [rows EXCEPT ![i + 1] =
                       Row_push(@, Hex_new(Pt(i + origin.hx, j + origin.hy)))])

\* for i in i..size.hx { rows.push(Row::new()); for j in 0..size.hy { ... } }
RECURSIVE Map_new_i(_, _, _, _)
Map_new_i(i, size, origin, rows) ==
    IF i >= size.hx THEN rows
    ELSE Map_new_i(i + 1, size, origin,
                   Map_new_j(i, 0, size, origin, Append(rows, Row_new)))

Map_new_transposed(shape, orientation, size, origin) ==
    [shape |-> shape, orientation |-> orientation, size |-> size,
     origin |-> origin,
     rows |-> Map_new_i(0, Pt(size.hy, size.hx), origin, <<>>)]
Map_new(shape, orientation, size, origin) ==
    [shape |-> shape, orientation |-> orientation, size |-> size,
     origin |-> origin, rows |-> Map_new_i(0, size, origin, <<>>)]

\* Index<usize> for Map, for Row: a Vec index out of range panics.
Map_index_ok(m, loc) == loc < Len(m.rows)
Map_index(m, loc) == m.rows[loc + 1]
Row_index_ok(r, loc) == loc < Len(r.row)
Row_index(r, loc) == r.row[loc + 1]

\* ---------------------------------------------------------------- actions
Init ==
    /\ a \in Points
    /\ b \in Points
    /\ k \in Ks
    /\ op = "init"
    /\ status = "ok"
    /\ out_pt = ORIGIN
    /\ out_int = 0
    /\ out_seq = <<>>
    /\ maps = <<>>

Returns(name) ==
    /\ op = "init"
    /\ op' = name
    /\ status' = "ok"
    /\ UNCHANGED <<a, b, k>>

DoNeighbor ==
    /\ Returns("neighbor")
    /\ out_pt' = neighbor(a, k)
    /\ UNCHANGED <<out_int, out_seq, maps>>

DoRotate ==
    /\ Returns("rotate")
    /\ out_pt' = rotate(a, k)
    /\ UNCHANGED <<out_int, out_seq, maps>>

DoReflect ==
    /\ Returns("reflect")
    /\ out_pt' = reflect(a, k)
    /\ UNCHANGED <<out_int, out_seq, maps>>

DoDistance ==
    /\ Returns("distance")
    /\ out_int' = distance(a, b)
    /\ UNCHANGED <<out_pt, out_seq, maps>>

DoLine ==
    /\ Returns("line")
    /\ out_seq' = line(a, b)
    /\ UNCHANGED <<out_pt, out_int, maps>>

DoRegion ==
    /\ Returns("region")
    /\ out_seq' = region(a, k)
    /\ UNCHANGED <<out_pt, out_int, maps>>

DoRing ==
    /\ Returns("ring")
    /\ out_seq' = ring(a, k)
    /\ UNCHANGED <<out_pt, out_int, maps>>

\* A negative radius is rejected, as the description of spiral requires.
DoSpiral ==
    /\ op = "init"
    /\ op' = "spiral"
    /\ status' = IF k < 0 THEN "panic" ELSE "ok"
    /\ out_seq' = IF k < 0 THEN out_seq ELSE spiral(a, k)
    /\ UNCHANGED <<a, b, k, out_pt, out_int, maps>>

\* Map::new(shape, orientation, size: b, origin: a)
DoMapNew ==
    /\ Returns("map_new")
    /\ \E shape \in Shapes, orientation \in Orientations :
           maps' = <<Map_new(shape, orientation, b, a)>>
    /\ UNCHANGED <<out_pt, out_int, out_seq>>

\* map[k][j]: the two Index impls, one after the other.  The index is a
\* usize, so k is not negative.
DoMapIndex ==
    /\ op = "map_new"
    /\ k >= 0
    /\ op' = "index"
    /\ \E j \in 0..MaxCoord :
           LET m == maps[1] IN
           IF Map_index_ok(m, k) /\ Row_index_ok(Map_index(m, k), j)
           THEN /\ status' = "ok"
                /\ out_pt' = Row_index(Map_index(m, k), j).location
                /\ out_int' = j
           ELSE /\ status' = "panic"
                /\ out_pt' = out_pt
                /\ out_int' = j
    /\ UNCHANGED <<a, b, k, out_seq, maps>>

\* A second call on the point the first call returned:
\* self.rotate(k).rotate(hextant)
DoRotateAgain ==
    /\ op = "rotate"
    /\ op' = "rotate_again"
    /\ status' = "ok"
    /\ \E hextant \in Ks :
          /\ out_int' = hextant
          /\ out_pt' = rotate(out_pt, hextant)
    /\ UNCHANGED <<a, b, k, out_seq, maps>>

\* self.reflect(k).reflect(k)
DoReflectAgain ==
    /\ op = "reflect"
    /\ op' = "reflect_again"
    /\ status' = "ok"
    /\ out_pt' = reflect(out_pt, k)
    /\ UNCHANGED <<a, b, k, out_int, out_seq, maps>>

Next ==
    \/ DoRotateAgain
    \/ DoReflectAgain
    \/ DoRegion
    \/ DoRing
    \/ DoSpiral
    \/ DoMapNew
    \/ DoMapIndex
    \/ DoLine
    \/ DoNeighbor
    \/ DoRotate
    \/ DoReflect
    \/ DoDistance

Spec == Init /\ [][Next]_vars

\* ------------------------------------------------------------ properties
Range(s) == {s[i] : i \in DOMAIN s}

\* C1: for points p, q with distance(p, q) >= 1, line(p, q) has exactly
\* distance(p, q) + 1 elements, its first element is p and its last is q.
C1_LineEnds ==
    (op = "line" /\ distance(a, b) >= 1) =>
        /\ Len(out_seq) = distance(a, b) + 1
        /\ out_seq[1] = a
        /\ out_seq[Len(out_seq)] = b

C1_Witness ==
    /\ op = "line"
    /\ distance(a, b) >= 3
    /\ a # ORIGIN
    /\ Len(out_seq) = distance(a, b) + 1
    /\ out_seq[1] = a
    /\ out_seq[Len(out_seq)] = b

\* C2: for every point p, line(p, p) is the one-element sequence [p].
C2_LineOfOnePoint ==
    (op = "line" /\ a = b) => out_seq = <<a>>

\* C3: distance(a, b) equals the largest of |d.hx|, |d.hy| and |d.hz()|,
\* where d = a - b and hz() is the third axis of Point.
C3_DistanceIsLargestAxis ==
    op = "distance" =>
        LET d == sub(a, b)
        IN out_int = max(abs(d.hx), max(abs(d.hy), abs(hz(d))))

\* The rotation table of C4, by the hextant reduced to 0..5.
RotateTable(p, r) ==
    CASE r = 0 -> Pt(p.hx, p.hy)
      [] r = 1 -> Pt(0 - p.hy, 0 - (p.hy - p.hx))
      [] r = 2 -> Pt(p.hy - p.hx, p.hx)
      [] r = 3 -> Pt(0 - p.hx, 0 - p.hy)
      [] r = 4 -> Pt(p.hy, p.hy - p.hx)
      [] r = 5 -> Pt(0 - (p.hy - p.hx), 0 - p.hx)

\* C4: rotate(p, hextant) is the entry of the rotation table for hextant
\* mod 6 (never negative), for positive, zero and negative hextants; so
\* rotating by 0, 6 or -6 gives p and rotating by 3 or -3 gives invert(p).
C4_RotateTable ==
    op = "rotate" =>
        /\ out_pt = RotateTable(a, k % 6)
        /\ (k \in {0, 6, -6} => out_pt = a)
        /\ (k \in {3, -3} => out_pt = Pt(0 - a.hx, 0 - a.hy))

C4_Witness ==
    /\ op = "rotate"
    /\ k = -7
    /\ a = Pt(1, -2)
    /\ out_pt = Pt(3, -1)

\* C5: for dist >= 0, region(p, dist) holds every point within hex-distance
\* dist of p exactly once and no other point, so it has 3*dist^2 + 3*dist + 1
\* elements.
C5_RegionIsBall ==
    (op = "region" /\ k >= 0) =>
        LET got == Range(out_seq)
        IN /\ Len(out_seq) = 3 * k * k + 3 * k + 1
           /\ Cardinality(got) = Len(out_seq)
           /\ \A q \in got : distance(a, q) <= k
           /\ \A x \in (a.hx - k)..(a.hx + k), y \in (a.hy - k)..(a.hy + k) :
                 distance(a, Pt(x, y)) <= k => Pt(x, y) \in got

C5_Witness ==
    /\ op = "region"
    /\ k = 3
    /\ a = Pt(2, -1)
    /\ Len(out_seq) = 37
    /\ Pt(5, -4) \in Range(out_seq)
    /\ Pt(5, 2) \notin Range(out_seq)

\* C6: for radius >= 1, ring(p, radius) starts at p + UNIT[4] * radius, has
\* 6 * radius elements, each at hex-distance radius from p; ring(ORIGIN, 1)
\* is UNIT[4], UNIT[5], UNIT[0], UNIT[1], UNIT[2], UNIT[3]; ring(p, 0) is [p].
C6_RingAroundCenter ==
    op = "ring" =>
        /\ k = 0 => out_seq = <<a>>
        /\ k >= 1 =>
             /\ Len(out_seq) = 6 * k
             /\ out_seq[1] = add(a, mul(UNIT[4], k))
             /\ \A i \in DOMAIN out_seq : distance(a, out_seq[i]) = k
        /\ (k = 1 /\ a = ORIGIN) =>
             out_seq = <<UNIT[4], UNIT[5], UNIT[0], UNIT[1], UNIT[2], UNIT[3]>>

\* C7: region and ring called with a negative dist or radius abort; they
\* never return normally.
C7_NegativeRadiusRejected ==
    (op \in {"region", "ring"} /\ k < 0) => status = "panic"

\* Number of elements of the rings of radius 0 .. r - 1.
RingsBefore(r) == IF r = 0 THEN 0 ELSE 3 * r * r - 3 * r + 1

C9_MapIsRectangle ==
    /\ (op = "map_new" /\ b.hx >= 0 /\ b.hy >= 0) =>
          LET m == maps[1]
          IN /\ m.size = b
             /\ m.origin = a
             /\ Len(m.rows) = b.hx
             /\ \A i \in 1..Len(m.rows) :
                   /\ Len(m.rows[i].row) = b.hy
                   /\ \A j \in 1..Len(m.rows[i].row) :
                         m.rows[i].row[j].location
                             = Pt(a.hx + (i - 1), a.hy + (j - 1))
    /\ (op = "index" /\ k < b.hx /\ out_int < b.hy) =>
          /\ status = "ok"
          /\ out_pt = Pt(a.hx + k, a.hy + out_int)

C9_Witness ==
    /\ op = "index"
    /\ b = Pt(2, 1)
    /\ a = Pt(-1, 2)
    /\ k = 1
    /\ out_int = 0
    /\ maps[1].shape = "Hexagon"
    /\ maps[1].orientation = "Vertical"
    /\ Len(maps[1].rows) = 2
    /\ Len(maps[1].rows[2].row) = 1
    /\ status = "ok"
    /\ out_pt = Pt(0, 2)

\* C10: neighbor(p, direction) is p + UNIT[direction mod 6] with a remainder
\* that is never negative, also for a negative direction; so the index is
\* inside UNIT, neighbor(ORIGIN, d) is UNIT[d] for d in 0..5, and the
\* neighbor is at distance 1 from p.
C10_NeighborIsUnitStep ==
    op = "neighbor" =>
        /\ rem_euclid(k, 6) \in DOMAIN UNIT
        /\ out_pt = add(a, UNIT[k % 6])
        /\ distance(a, out_pt) = 1
        /\ (a = ORIGIN /\ k \in 0..5) => out_pt = UNIT[k]

C10_Witness ==
    /\ op = "neighbor"
    /\ k = -1
    /\ a = Pt(2, -2)
    /\ out_pt = Pt(1, -2)

\* The quotient n / d (d > 0) rounded to the nearest integer, ties away
\* from zero, in exact arithmetic.
RoundHalfAway(n, d) ==
    IF n < 0 THEN 0 - ((2 * (0 - n) + d) \div (2 * d))
    ELSE (2 * n + d) \div (2 * d)

\* C11 as stated: with length = distance(a, b) >= 1, element i of line(a, b)
\* is (round(a.hx + i * (b.hx - a.hx) / length),
\*     round(a.hy + i * (b.hy - a.hy) / length)),
\* the rounding (ties away from zero) taken of the whole sum.
C11_RoundOfWholeSum ==
    (op = "line" /\ distance(a, b) >= 1) =>
        LET length == distance(a, b)
        IN \A i \in 0..length :
              out_seq[i + 1] =
                  Pt(RoundHalfAway(a.hx * length + i * (b.hx - a.hx), length),
                     RoundHalfAway(a.hy * length + i * (b.hy - a.hy), length))

\* round(i * (d / length)), the quotient and the product taken in f32 and
\* the rounding (ties away from zero) taken of the product alone.
RoundedStep(i, d, length) ==
    as_i32(f32_round(f32_mul(as_f32(i), f32_div(as_f32(d), as_f32(length)))))

\* C11, amended: with length = distance(a, b) >= 1, element i of line(a, b)
\* is (a.hx + round(i * sx), a.hy + round(i * sy)), where sx and sy are the
\* f32 quotients (b.hx - a.hx) / length and (b.hy - a.hy) / length: the
\* rounding is taken of the step alone and the start coordinate is added
\* after it; every element is computed from i alone.
C11_StepRoundedThenAdded ==
    (op = "line" /\ distance(a, b) >= 1) =>
        LET length == distance(a, b)
        IN /\ Len(out_seq) = length + 1
           /\ \A i \in 0..length :
                 out_seq[i + 1] =
                     Pt(a.hx + RoundedStep(i, b.hx - a.hx, length),
                        a.hy + RoundedStep(i, b.hy - a.hy, length))

\* A line whose middle step is a tie on both axes, from a negative start.
C11_Witness ==
    /\ op = "line"
    /\ a = Pt(-1, -2)
    /\ b = Pt(0, -1)
    /\ out_seq = <<Pt(-1, -2), Pt(0, -1), Pt(0, -1)>>

\* C12: rotations compose additively: rotate(rotate(p, x), y) is
\* rotate(p, x + y); so rotating back by -x gives p, three rotations by 1
\* in a row give invert(p), and six give p.
C12_RotationsAdd ==
    op = "rotate_again" =>
        /\ out_pt = RotateTable(a, (k + out_int) % 6)
        /\ (out_int = 0 - k) => out_pt = a
        /\ (k = 1 /\ out_int = 1) =>
              /\ rotate(out_pt, 1) = Pt(0 - a.hx, 0 - a.hy)
              /\ rotate(rotate(rotate(rotate(out_pt, 1), 1), 1), 1) = a

\* C13: with distance(a, b) >= 1, any two consecutive elements of
\* line(a, b) are at hex-distance exactly 1: no point is repeated and no cell
\* is jumped over.
C13_LineStepsAreNeighbors ==
    (op = "line" /\ distance(a, b) >= 1) =>
        \A i \in 1..(Len(out_seq) - 1) :
            distance(out_seq[i], out_seq[i + 1]) = 1

\* C14: a reflection applied twice gives the point back, and a reflection
\* keeps the distance from ORIGIN, for every axis.
C14_ReflectIsInvolution ==
    /\ op = "reflect" => distance(ORIGIN, out_pt) = distance(ORIGIN, a)
    /\ op = "reflect_again" => out_pt = a

====
